---- MODULE Spec2Model ----
(***************************************************************************)
(* The CloudWatch collector of collector.go: Describe, Collect,            *)
(* collectBatch and collectMetric, driven by a nondeterministic Reporter   *)
(* and drained by a consumer over an unbuffered channel.                   *)
(*                                                                         *)
(* Strings are sequences of one-character strings, so that slicing,        *)
(* strconv.Atoi, strings.Join and the name normalisation are computed.     *)
(* float64 sample values are integers.                                     *)
(***************************************************************************)
EXTENDS Integers, Sequences, FiniteSets, TLC

(***************************************************************************)
(* Bounds.                                                                 *)
(***************************************************************************)
\* collector.go:16 sets batchSize to 500; the model scales it down so that
\* listings below, equal to and above one and two batches are enumerated.
batchSize == 2
\* Identities the mock holds per namespace/metric group (InsertRandom count).
MaxPerGroup == 2
\* Collect invocations on the one Collector.
MaxCollects == 2
\* The longest value sequence of a QueryResult.
MaxValues == 2

(***************************************************************************)
(* Strings.                                                                *)
(***************************************************************************)
UpperChars == <<"A","B","C","D","E","F","G","H","I","J","K","L","M",
                "N","O","P","Q","R","S","T","U","V","W","X","Y","Z">>
LowerChars == <<"a","b","c","d","e","f","g","h","i","j","k","l","m",
                "n","o","p","q","r","s","t","u","v","w","x","y","z">>
DigitChars == <<"0","1","2","3","4","5","6","7","8","9">>

isUpper(c) == c \in {UpperChars[n] : n \in 1..26}
isLower(c) == c \in {LowerChars[n] : n \in 1..26}
isDigit(c) == c \in {DigitChars[n] : n \in 1..10}
toLower(c) == IF isUpper(c) THEN LowerChars[CHOOSE n \in 1..26 : UpperChars[n] = c] ELSE c
DigitVal(c) == (CHOOSE n \in 1..10 : DigitChars[n] = c) - 1

\* The zero rune of delimiterCase's prev/curr before the first character.
NoRune == "NUL"
isDelimiter(c) == c \in {"-", "_", " "}

\* prometheusMetricNameRegexp.ReplaceAllString(s, "_"): every character outside
\* [a-zA-Z0-9_:] becomes "_".
ReplaceAllString(s) ==
    [n \in 1..Len(s) |->
        IF isUpper(s[n]) \/ isLower(s[n]) \/ isDigit(s[n]) \/ s[n] \in {"_", ":"}
        THEN s[n] ELSE "_"]

\* strcase.SnakeCase (delimiterCase with "_" and lower case): the characters
\* appended while position n is the current rune; next is NoRune at the end.
SnakeAt(s, n) ==
    LET prev == IF n > 1 THEN s[n - 1] ELSE NoRune
        curr == s[n]
        next == IF n < Len(s) THEN s[n + 1] ELSE NoRune
    IN  IF n < Len(s)
        THEN IF isDelimiter(curr)
             THEN IF isDelimiter(prev) THEN <<>> ELSE <<"_">>
             ELSE IF isUpper(curr)
                  THEN (IF isLower(prev) \/ (isUpper(prev) /\ isLower(next))
                        THEN <<"_">> ELSE <<>>) \o <<toLower(curr)>>
                  ELSE <<toLower(curr)>>
        ELSE (IF isUpper(curr) /\ isLower(prev) THEN <<"_">> ELSE <<>>)
             \o <<toLower(curr)>>

RECURSIVE SnakeFrom(_, _)
SnakeFrom(s, n) == IF n > Len(s) THEN <<>> ELSE SnakeAt(s, n) \o SnakeFrom(s, n + 1)

SnakeCase(s) == SnakeFrom(s, 1)

\* strings.Join(elems, " ")
RECURSIVE Join(_)
Join(elems) ==
    IF Len(elems) = 0 THEN <<>>
    ELSE IF Len(elems) = 1 THEN elems[1]
    ELSE elems[1] \o <<" ">> \o Join(Tail(elems))

\* strconv.Atoi: an optional sign, then one or more decimal digits.
RECURSIVE DecimalValue(_)
DecimalValue(s) ==
    IF Len(s) = 0 THEN 0
    ELSE 10 * DecimalValue(SubSeq(s, 1, Len(s) - 1)) + DigitVal(s[Len(s)])

Atoi(s) ==
    LET signed == Len(s) > 0 /\ s[1] \in {"+", "-"}
        digits == IF signed THEN Tail(s) ELSE s
        ok     == Len(digits) > 0 /\ \A n \in 1..Len(digits) : isDigit(digits[n])
    IN  [err |-> ~ok,
         val |-> IF ~ok THEN 0
                 ELSE IF signed /\ s[1] = "-" THEN 0 - DecimalValue(digits)
                 ELSE DecimalValue(digits)]

(***************************************************************************)
(* Metric identities and the Reporter's listing.                           *)
(***************************************************************************)
Star == <<"*">>

AwsEc2 == <<"A","W","S","/","E","C","2">>
AwsEbs == <<"A","W","S","/","E","B","S">>
NetworkIn == <<"N","e","t","w","o","r","k","I","n">>
NetworkOut == <<"N","e","t","w","o","r","k","O","u","t">>
VolumeWriteBytes == <<"V","o","l","u","m","e","W","r","i","t","e","B","y","t","e","s">>

\* The namespace/metric groups the test inserts into the mock (InsertRandom).
Groups == 1..3
GroupNamespace(g) == IF g = 3 THEN AwsEbs ELSE AwsEc2
GroupMetricName(g) == IF g = 1 THEN NetworkIn ELSE IF g = 2 THEN NetworkOut
                      ELSE VolumeWriteBytes

\* Dimension names.  CloudWatch allows any ASCII in a dimension name, a space
\* included.
DimId == <<"I","d">>
DimDev == <<"D","e","v">>
DimA == <<"a">>
DimBC == <<"b"," ","c">>
DimAB == <<"a"," ","b">>
DimC == <<"c">>
DimABC == <<"a"," ","b"," ","c">>

\* The dimension-name sequence of the k-th identity of group g.  The EC2
\* groups share one sequence (k odd) and differ in the order of two names (k
\* even); the EBS group's sequences all join to "a b c".
DimensionNames(g, k) ==
    IF g = 3
    THEN (IF k % 3 = 1 THEN <<DimA, DimBC>>
          ELSE IF k % 3 = 2 THEN <<DimAB, DimC>>
          ELSE <<DimABC>>)
    ELSE IF k % 2 = 1 THEN <<DimId>>
    ELSE IF g = 1 THEN <<DimDev, DimId>>
    ELSE <<DimId, DimDev>>

\* The k-th identity of group g; an instance reports the same dimension
\* values under every metric name.
Identity(g, k) ==
    [Namespace  |-> GroupNamespace(g),
     MetricName |-> GroupMetricName(g),
     Dimensions |-> [j \in 1..Len(DimensionNames(g, k)) |->
                        [Name  |-> DimensionNames(g, k)[j],
                         Value |-> <<"v", DigitChars[k + 1], DigitChars[j + 1]>>]]]

\* types.Metric{}: the zero value held by a freshly made batch buffer.
ZeroMetric == [Namespace |-> <<>>, MetricName |-> <<>>, Dimensions |-> <<>>]

\* The mock's store after InsertRandom(namespace, name, count) for each group
\* (test, lines 21-24).
Inserted(count) ==
    [k \in 1..count |-> Identity(1, k)] \o [k \in 1..count |-> Identity(2, k)]
        \o [k \in 1..count |-> Identity(3, k)]

Stores == {Inserted(count) : count \in 0..MaxPerGroup}

\* The filter pairs of the test (lines 42-46) this store distinguishes.
Filters == {<<AwsEc2, NetworkIn>>, <<AwsEc2, Star>>, <<Star, Star>>}

\* A filter of "*" matches any value, a literal matches exactly.
Matches(filter, v) == filter = Star \/ filter = v

\* reporter.ListMetrics(namespace, metricName) on a store.
ListMetrics(store, ns, mn) ==
    SelectSeq(store, LAMBDA m : Matches(ns, m.Namespace) /\ Matches(mn, m.MetricName))

\* The number of identities of one namespace/metric group in a store.
GroupCount(store, g) ==
    Cardinality({n \in 1..Len(store) :
                    /\ store[n].Namespace = GroupNamespace(g)
                    /\ store[n].MetricName = GroupMetricName(g)})

(***************************************************************************)
(* Descriptors and samples (prometheus.Desc, prometheus.Metric).           *)
(***************************************************************************)
\* The name validation of the client_golang the build links, which
\* collector.go does not fix: "legacy" admits [a-zA-Z_][a-zA-Z0-9_]* as a label
\* name and [a-zA-Z_:][a-zA-Z0-9_:]* as a metric name, "utf8" any non-empty
\* string.
VARIABLE nameValidationScheme

NameValidationSchemes == {"legacy", "utf8"}

\* What NewDesc asks of a label name; names starting "__" are reserved.
ValidLabelName(s) ==
    /\ Len(s) > 0
    /\ ~(Len(s) > 1 /\ s[1] = "_" /\ s[2] = "_")
    /\ nameValidationScheme = "legacy" =>
          /\ isUpper(s[1]) \/ isLower(s[1]) \/ s[1] = "_"
          /\ \A n \in 1..Len(s) :
                isUpper(s[n]) \/ isLower(s[n]) \/ isDigit(s[n]) \/ s[n] = "_"

\* What NewDesc asks of a metric name.
ValidMetricName(s) ==
    /\ Len(s) > 0
    /\ nameValidationScheme = "legacy" =>
          /\ isUpper(s[1]) \/ isLower(s[1]) \/ s[1] \in {"_", ":"}
          /\ \A n \in 1..Len(s) :
                isUpper(s[n]) \/ isLower(s[n]) \/ isDigit(s[n]) \/ s[n] \in {"_", ":"}

\* prometheus.NewDesc(fqName, help, variableLabels, nil): a new instance (id);
\* an invalid name, an invalid or a repeated label name is recorded in err.
NewDesc(id, fqName, variableLabels) ==
    [id             |-> id,
     fqName         |-> fqName,
     variableLabels |-> variableLabels,
     err            |-> \/ ~ValidMetricName(fqName)
                        \/ \E n \in 1..Len(variableLabels) :
                              ~ValidLabelName(variableLabels[n])
                        \/ \E a, b \in 1..Len(variableLabels) :
                              a # b /\ variableLabels[a] = variableLabels[b]]

CloudwatchError == <<"c","l","o","u","d","w","a","t","c","h","_","e","r","r","o","r">>
Dummy == <<"d","u","m","m","y">>

\* c.errDesc, made once by newCollector.
errDesc == NewDesc(0, CloudwatchError, <<>>)

\* prometheus.NewInvalidMetric(c.errDesc, err)
NewInvalidMetric(desc, err) == [kind |-> "invalid", desc |-> desc, err |-> err]

\* Whether prometheus.MustNewConstMetric(desc, UntypedValue, value, lvs...)
\* panics: the descriptor carries an error, or the label cardinality differs.
ConstMetricPanics(desc, lvs) == desc.err \/ Len(lvs) # Len(desc.variableLabels)

NewConstMetric(desc, value, lvs) ==
    [kind |-> "data", desc |-> desc, value |-> value, lvs |-> lvs]

\* namespace+"_"+name of collectMetric
FqName(m) ==
    CHOOSE fqName \in
        {SnakeCase(ns) \o <<"_">> \o SnakeCase(name) :
            ns \in {ReplaceAllString(m.Namespace)},
            name \in {ReplaceAllString(m.MetricName)}} : TRUE

\* lns and lvs of collectMetric
LabelNames(m) == [j \in 1..Len(m.Dimensions) |-> m.Dimensions[j].Name]
LabelValues(m) == [j \in 1..Len(m.Dimensions) |-> m.Dimensions[j].Value]

\* The mutant of DescKey: the key names the metric as well as its dimensions.
DescKeyWithName(m) == FqName(m) \o <<" ">> \o Join(LabelNames(m))

\* key := strings.Join(lns, " ")
DescKey(m) == Join(LabelNames(m))

(***************************************************************************)
(* What the Reporter may answer to GetMetricsResults.                      *)
(***************************************************************************)
\* "n<index>"
PositionId(index) == <<"n", DigitChars[index + 1]>>

\* Result ids for a batch of nm members: every position, the first position
\* past the batch, and malformed ids.
ResultIds(nm) ==
    {PositionId(index) : index \in 0..nm}
        \cup {<<>>, <<"x", "0">>, <<"n", "x">>, <<"n", "-", "1">>}

\* Value sequences of a QueryResult: none, or n, n-1, ..., 1 (the first value
\* differs from every later one).
ResultValues == {[j \in 1..n |-> n + 1 - j] : n \in 0..MaxValues}

(***************************************************************************)
(* State.                                                                  *)
(***************************************************************************)
VARIABLES
    inserted,     \* the mock's store, read by ListMetrics
    namespace,    \* c.namespace
    metricName,   \* c.metricName
    descMap,      \* c.descMap: the entries [key, desc], one per key
    calls,        \* Collect invocations started
    pc,           \* per Collect goroutine: where it stands
    fr,           \* per Collect goroutine: its local variables
    ch,           \* per Collect goroutine: the sample offered on its unbuffered sink
    closed,       \* per Collect goroutine: whether its caller has closed the sink
    gh,           \* per Collect goroutine: history of the running invocation
    descCh        \* the descriptor offered on Describe's unbuffered sink

vars == <<nameValidationScheme, inserted, namespace, metricName, descMap,
          calls, pc, fr, ch, closed, gh, descCh>>

\* Goroutines that may run Collect on the one Collector.
Procs == {1, 2}

\* The locals of Collect, collectBatch and collectMetric before they are set.
ZeroFrame ==
    [metrics |-> <<>>, batch |-> <<>>, i |-> 0, next |-> 1,
     arg |-> <<>>, retTo |-> "none", nr |-> 0, k |-> 0,
     result |-> [Id |-> <<>>, Values |-> <<>>], idx |-> 0, m |-> ZeroMetric,
     value |-> 0, ok |-> FALSE, desc |-> errDesc]

\* History of one invocation: samples the consumer received (data, invalid),
\* Reporter calls made and failed, the sizes of the batches fetched (okSize)
\* and of those whose fetch failed (errSize), whether every result so far was
\* as the contract asks and carried a value (honoured), the positions decoded
\* in the running batch (seen), the decoded results that carried a value
\* (valued) and the data samples offered (sent).
ZeroHistory ==
    [data |-> 0, invalid |-> 0, lists |-> 0, listErr |-> FALSE, gets |-> 0,
     getErrs |-> 0, okSize |-> 0, errSize |-> 0, honoured |-> TRUE,
     seen |-> {}, valued |-> 0, sent |-> 0]

Init ==
    /\ nameValidationScheme \in NameValidationSchemes
    /\ inserted \in Stores
    /\ \E f \in Filters : namespace = f[1] /\ metricName = f[2]
    /\ descMap = {}
    /\ calls = 0
    /\ pc = [p \in Procs |-> "idle"]
    /\ fr = [p \in Procs |-> ZeroFrame]
    /\ ch = [p \in Procs |-> <<>>]
    /\ closed = [p \in Procs |-> FALSE]
    /\ gh = [p \in Procs |-> ZeroHistory]
    /\ descCh = <<>>

\* A panic ends the process, every goroutine with it.
Crashed == \E p \in Procs : pc[p] = "panic"

\* The mutant of Runs: the sink buffers, a goroutine goes on with a sample
\* still offered.
RunsBuffered(p, at) == ~Crashed /\ pc[p] = at

\* A goroutine runs when the process lives and its last send has been received.
Runs(p, at) == ~Crashed /\ pc[p] = at /\ ch[p] = <<>>

CollectorFields == <<nameValidationScheme, inserted, namespace, metricName>>
DescribeVars == <<descCh>>

(***************************************************************************)
(* Describe (collector.go:44-46) and its consumer.                         *)
(***************************************************************************)
\* The mutant of DummyDesc: Describe advertises a descriptor of the cache.
DescFromCache ==
    IF descMap = {} THEN NewDesc(0 - 1, Dummy, <<>>)
    ELSE (CHOOSE e \in descMap : TRUE).desc

\* prometheus.NewDesc("dummy", "dummy", nil, nil): a new instance on every
\* call, none of them an instance collectMetric makes (those count from 1).
DummyDesc == NewDesc(0 - 1, Dummy, <<>>)

\* ch <- prometheus.NewDesc("dummy", "dummy", nil, nil).  Describe reads and
\* writes nothing of the collector; it is started between Collect invocations.
Describe ==
    /\ ~Crashed
    /\ \A p \in Procs : pc[p] \in {"idle", "done"}
    /\ descCh = <<>>
    /\ descCh' = <<DummyDesc>>
    /\ UNCHANGED <<CollectorFields, descMap, calls, pc, fr, ch, closed, gh>>

\* The registry receives the descriptor, and Describe returns.
ReceiveDesc ==
    /\ ~Crashed
    /\ descCh # <<>>
    /\ descCh' = <<>>
    /\ UNCHANGED <<CollectorFields, descMap, calls, pc, fr, ch, closed, gh>>

(***************************************************************************)
(* Collect (collector.go:49-77).                                           *)
(***************************************************************************)
\* The caller makes a channel and starts Collect on it (test, lines 52-54); the
\* channel of its previous invocation has been closed (lines 55-60).
StartCollect(p) ==
    /\ ~Crashed
    /\ pc[p] = "idle" \/ (pc[p] = "done" /\ closed[p])
    /\ descCh = <<>>
    /\ calls < MaxCollects
    /\ calls' = calls + 1
    /\ pc' = [pc EXCEPT ![p] = "ListMetrics"]
    /\ fr' = [fr EXCEPT ![p] = ZeroFrame]
    /\ gh' = [gh EXCEPT ![p] = ZeroHistory]
    /\ ch' = [ch EXCEPT ![p] = <<>>]
    /\ closed' = [closed EXCEPT ![p] = FALSE]
    /\ UNCHANGED <<CollectorFields, descMap, DescribeVars>>

\* The mutant of ListMetricsFails: the failure is logged and not sent.
ListMetricsFailsUnsent(p) ==
    /\ Runs(p, "ListMetrics")
    /\ pc' = [pc EXCEPT ![p] = "return"]
    /\ gh' = [gh EXCEPT ![p].lists = @ + 1, ![p].listErr = TRUE]
    /\ UNCHANGED <<CollectorFields, descMap, calls, fr, ch, closed, DescribeVars>>

\* Lines 50-55: ListMetrics fails; one invalid metric is sent, then return.
ListMetricsFails(p) ==
    /\ Runs(p, "ListMetrics")
    /\ ch' = [ch EXCEPT ![p] = <<NewInvalidMetric(errDesc, "ListError")>>]
    /\ pc' = [pc EXCEPT ![p] = "return"]
    /\ gh' = [gh EXCEPT ![p].lists = @ + 1, ![p].listErr = TRUE]
    /\ UNCHANGED <<CollectorFields, descMap, calls, fr, closed, DescribeVars>>

\* length of lines 59-62
BatchLength(metrics) == IF Len(metrics) > batchSize THEN batchSize ELSE Len(metrics)

\* Lines 50, 59-66: ListMetrics succeeds; the batch buffer is made.
ListMetricsReturns(p) ==
    /\ Runs(p, "ListMetrics")
    /\ LET metrics == ListMetrics(inserted, namespace, metricName)
       IN  fr' = [fr EXCEPT ![p].metrics = metrics,
                            ![p].batch = [n \in 1..BatchLength(metrics) |-> ZeroMetric],
                            ![p].i = 0,
                            ![p].next = 1]
    /\ pc' = [pc EXCEPT ![p] = "loop"]
    /\ gh' = [gh EXCEPT ![p].lists = @ + 1]
    /\ UNCHANGED <<CollectorFields, descMap, calls, ch, closed, DescribeVars>>

\* The mutant of LoopIteration: the loop goes on while the error sample of
\* the batch before is still offered.
LoopIterationAsync(p) ==
    /\ ~Crashed /\ pc[p] = "loop"
    /\ fr[p].next <= Len(fr[p].metrics)
    /\ IF fr[p].i >= Len(fr[p].batch)
       THEN /\ pc' = [pc EXCEPT ![p] = "panic"]
            /\ fr' = fr
       ELSE LET batch == [fr[p].batch EXCEPT ![fr[p].i + 1] = fr[p].metrics[fr[p].next]]
                i     == fr[p].i + 1
            IN  IF i < batchSize
                THEN /\ fr' = [fr EXCEPT ![p].batch = batch, ![p].i = i,
                                         ![p].next = @ + 1]
                     /\ pc' = pc
                ELSE /\ fr' = [fr EXCEPT ![p].batch = batch, ![p].i = 0,
                                         ![p].next = @ + 1,
                                         ![p].arg = batch, ![p].retTo = "loop"]
                     /\ pc' = [pc EXCEPT ![p] = "collectBatch"]
    /\ UNCHANGED <<CollectorFields, descMap, calls, ch, closed, gh,
                   DescribeVars>>

\* Lines 67-75: one iteration of the range loop; a full buffer is handed to
\* collectBatch.  batch[i] of Go is batch[i + 1] here.
LoopIteration(p) ==
    /\ Runs(p, "loop")
    /\ fr[p].next <= Len(fr[p].metrics)
    /\ IF fr[p].i >= Len(fr[p].batch)
       THEN /\ pc' = [pc EXCEPT ![p] = "panic"]
            /\ fr' = fr
       ELSE LET batch == [fr[p].batch EXCEPT ![fr[p].i + 1] = fr[p].metrics[fr[p].next]]
                i     == fr[p].i + 1
            IN  IF i < batchSize
                THEN /\ fr' = [fr EXCEPT ![p].batch = batch, ![p].i = i,
                                         ![p].next = @ + 1]
                     /\ pc' = pc
                ELSE /\ fr' = [fr EXCEPT ![p].batch = batch, ![p].i = 0,
                                         ![p].next = @ + 1,
                                         ![p].arg = batch, ![p].retTo = "loop"]
                     /\ pc' = [pc EXCEPT ![p] = "collectBatch"]
    /\ UNCHANGED <<CollectorFields, descMap, calls, ch, closed, gh,
                   DescribeVars>>

\* The mutant of FinalBatch: the whole buffer is passed after the loop.
FinalBatchWhole(batch, i) == batch

\* A mutant of FinalBatch: the last i slots of the buffer, not the first.
FinalBatchStale(batch, i) == SubSeq(batch, Len(batch) - i + 1, Len(batch))

\* batch[:i] of line 76
FinalBatch(batch, i) == SubSeq(batch, 1, i)

\* Line 76: after the loop, collectBatch(ch, batch[:i]).
LoopEnds(p) ==
    /\ Runs(p, "loop")
    /\ fr[p].next > Len(fr[p].metrics)
    /\ fr' = [fr EXCEPT ![p].arg = FinalBatch(fr[p].batch, fr[p].i),
                        ![p].retTo = "return"]
    /\ pc' = [pc EXCEPT ![p] = "collectBatch"]
    /\ UNCHANGED <<CollectorFields, descMap, calls, ch, closed, gh,
                   DescribeVars>>

\* Line 77: Collect returns once its last send has been received.
Return(p) ==
    /\ Runs(p, "return")
    /\ pc' = [pc EXCEPT ![p] = "done"]
    /\ UNCHANGED <<CollectorFields, descMap, calls, fr, ch, closed, gh,
                   DescribeVars>>

\* The caller closes the channel after Collect has returned (test, line 55).
CloseSink(p) ==
    /\ ~Crashed
    /\ pc[p] = "done"
    /\ ~closed[p]
    /\ closed' = [closed EXCEPT ![p] = TRUE]
    /\ UNCHANGED <<CollectorFields, descMap, calls, pc, fr, ch, gh,
                   DescribeVars>>

\* The frame once collectMetric has returned: its locals and the loop body's
\* are gone.
AfterMetric(f) ==
    [f EXCEPT !.result = ZeroFrame.result, !.idx = 0, !.m = ZeroMetric,
              !.value = 0, !.ok = FALSE, !.desc = errDesc]

\* The consumer receives the offered sample (test, lines 57-60); the send
\* statement of the producer ends with it, and with it collectMetric.
Receive(p) ==
    /\ ~Crashed
    /\ ch[p] # <<>>
    /\ ch' = [ch EXCEPT ![p] = <<>>]
    /\ gh' = IF ch[p][1].kind = "data"
             THEN [gh EXCEPT ![p].data = @ + 1]
             ELSE [gh EXCEPT ![p].invalid = @ + 1]
    /\ fr' = [fr EXCEPT ![p] = AfterMetric(@)]
    /\ UNCHANGED <<CollectorFields, descMap, calls, pc, closed,
                   DescribeVars>>

(***************************************************************************)
(* collectBatch (collector.go:117-148).                                    *)
(***************************************************************************)
\* The frame once collectBatch has returned: its locals are gone.
AfterBatch(f) ==
    [f EXCEPT !.arg = <<>>, !.retTo = "none", !.nr = 0, !.k = 0,
              !.result = ZeroFrame.result, !.idx = 0, !.m = ZeroMetric,
              !.value = 0, !.ok = FALSE, !.desc = errDesc]

\* Lines 120-122: an empty batch returns without a Reporter call.
BatchEmpty(p) ==
    /\ Runs(p, "collectBatch")
    /\ Len(fr[p].arg) = 0
    /\ pc' = [pc EXCEPT ![p] = fr[p].retTo]
    /\ fr' = [fr EXCEPT ![p] = AfterBatch(@)]
    /\ UNCHANGED <<CollectorFields, descMap, calls, ch, closed, gh,
                   DescribeVars>>

\* A mutant of GetMetricsResultsFails: the failed fetch is reported and tried
\* again.
GetMetricsResultsFailsRetries(p) ==
    /\ Runs(p, "collectBatch")
    /\ Len(fr[p].arg) > 0
    /\ ch' = [ch EXCEPT ![p] = <<[kind |-> "invalid", desc |-> errDesc,
                                  err |-> "QueryError"]>>]
    /\ gh' = [gh EXCEPT ![p].gets = @ + 1, ![p].getErrs = @ + 1,
                        ![p].errSize = @ + Len(fr[p].arg)]
    /\ UNCHANGED <<CollectorFields, descMap, calls, pc, fr, closed, DescribeVars>>

\* The mutant of GetMetricsResultsFails: the failure ends Collect, not the
\* batch alone.
GetMetricsResultsFailsEndsCollect(p) ==
    /\ Runs(p, "collectBatch")
    /\ Len(fr[p].arg) > 0
    /\ ch' = [ch EXCEPT ![p] = <<[kind |-> "invalid", desc |-> errDesc,
                                  err |-> "QueryError"]>>]
    /\ pc' = [pc EXCEPT ![p] = "return"]
    /\ fr' = [fr EXCEPT ![p] = AfterBatch(@)]
    /\ gh' = [gh EXCEPT ![p].gets = @ + 1, ![p].getErrs = @ + 1,
                        ![p].errSize = @ + Len(fr[p].arg)]
    /\ UNCHANGED <<CollectorFields, descMap, calls, closed, DescribeVars>>

\* Lines 123-128: GetMetricsResults fails; one invalid metric is sent, then
\* collectBatch returns.
GetMetricsResultsFails(p) ==
    /\ Runs(p, "collectBatch")
    /\ Len(fr[p].arg) > 0
    /\ ch' = [ch EXCEPT ![p] = <<NewInvalidMetric(errDesc, "QueryError")>>]
    /\ pc' = [pc EXCEPT ![p] = fr[p].retTo]
    /\ fr' = [fr EXCEPT ![p] = AfterBatch(@)]
    /\ gh' = [gh EXCEPT ![p].gets = @ + 1, ![p].getErrs = @ + 1,
                        ![p].errSize = @ + Len(fr[p].arg)]
    /\ UNCHANGED <<CollectorFields, descMap, calls, closed, DescribeVars>>

\* The mutant of AfterLengthCheck: the lengths are not compared.
AfterLengthCheckNone(nr, nm) == "results"

\* Where collectBatch goes with nr results for nm metrics (lines 129-133).
AfterLengthCheck(nr, nm) == IF nr # nm THEN "panic" ELSE "results"

\* Lines 123, 129-133: GetMetricsResults returns nr results.  The results are
\* read once each, in order, by the loop of lines 134-148, and are drawn when
\* they are read.
GetMetricsResultsReturns(p) ==
    /\ Runs(p, "collectBatch")
    /\ Len(fr[p].arg) > 0
    /\ \E nr \in 0..(Len(fr[p].arg) + 1) :
          /\ pc' = [pc EXCEPT ![p] = AfterLengthCheck(nr, Len(fr[p].arg))]
          /\ fr' = [fr EXCEPT ![p].nr = nr, ![p].k = 1]
          /\ gh' = [gh EXCEPT ![p].gets = @ + 1,
                              ![p].okSize = IF nr = Len(fr[p].arg) THEN @ + nr ELSE @,
                              ![p].honoured = @ /\ nr = Len(fr[p].arg),
                              ![p].seen = {}]
    /\ UNCHANGED <<CollectorFields, descMap, calls, ch, closed, DescribeVars>>

\* The mutant of DecodeId: results are taken to answer the batch in order,
\* the first position standing for whatever id parses.
DecodeIdFirst(id, nm) ==
    IF Len(id) < 1 THEN [panic |-> TRUE, idx |-> 0]
    ELSE LET a == Atoi(Tail(id))
         IN  IF a.err THEN [panic |-> TRUE, idx |-> 0]
             ELSE IF a.val < 0 \/ a.val >= nm THEN [panic |-> TRUE, idx |-> a.val]
             ELSE [panic |-> FALSE, idx |-> 0]

\* Lines 136-141 on one result id for a batch of nm metrics: the panic of the
\* slice (*result.Id)[1:], of strconv.Atoi's error and of metrics[idx], or the
\* index decoded.
DecodeId(id, nm) ==
    IF Len(id) < 1 THEN [panic |-> TRUE, idx |-> 0]
    ELSE LET a == Atoi(Tail(id))
         IN  IF a.err THEN [panic |-> TRUE, idx |-> 0]
             ELSE IF a.val < 0 \/ a.val >= nm THEN [panic |-> TRUE, idx |-> a.val]
             ELSE [panic |-> FALSE, idx |-> a.val]

\* What the loop body does with a decoded result (lines 143-147): skip it, or
\* call collectMetric with result.Values[0].
AfterDecode(values) == IF Len(values) = 0 THEN "results" ELSE "collectMetric"

\* The mutant of SampleValue: the last value of the sequence.
SampleValueLast(values) == IF Len(values) = 0 THEN 0 ELSE values[Len(values)]

SampleValue(values) == IF Len(values) = 0 THEN 0 ELSE values[1]

\* Line 148: the result loop is over; collectBatch returns.
BatchReturns(p) ==
    /\ Runs(p, "results")
    /\ fr[p].k > fr[p].nr
    /\ pc' = [pc EXCEPT ![p] = fr[p].retTo]
    /\ fr' = [fr EXCEPT ![p] = AfterBatch(@)]
    /\ gh' = [gh EXCEPT ![p].seen = {}]
    /\ UNCHANGED <<CollectorFields, descMap, calls, ch, closed, DescribeVars>>

(***************************************************************************)
(* collectMetric (collector.go:79-108).                                    *)
(***************************************************************************)
\* The mutant of Cached: the lookup never hits.
CachedNever(map, key) == {}

\* c.descMap[key]: the descriptors stored under key (none, or one).
Cached(map, key) == {e.desc : e \in {x \in map : x.key = key}}

\* The mutant of NextInstance: instances made for one key are not told apart.
NextInstanceSame(map, key) == 1

\* The id of the next descriptor instance made for key.  An instance is named
\* by its label names and by how many instances were stored under its key
\* before it; entries are replaced, never removed, so no two instances share
\* a name.
NextInstance(map, key) ==
    LET under == {x \in map : x.key = key}
    IN  IF under = {} THEN 1 ELSE (CHOOSE x \in under : TRUE).desc.id + 1

\* c.descMap[key] = desc
Stored(map, key, desc) ==
    {x \in map : x.key # key} \cup {[key |-> key, desc |-> desc]}

\* Lines 101-107 for the frame f and history g of a goroutine: the sample is
\* made and offered under desc, or MustNewConstMetric panics.
Send(f, g, desc) ==
    IF ConstMetricPanics(desc, LabelValues(f.m))
    THEN [pc |-> "panic", fr |-> [f EXCEPT !.desc = desc], ch |-> <<>>, gh |-> g]
    ELSE [pc |-> "results",
          fr |-> [f EXCEPT !.desc = desc, !.k = @ + 1],
          ch |-> <<NewConstMetric(desc, f.value, LabelValues(f.m))>>,
          gh |-> [g EXCEPT !.sent = @ + 1]]

\* Lines 79-96: collectMetric looks the cache up; on a hit the sample is sent
\* under the cached descriptor, on a miss a descriptor is to be made.
Lookup(f, g, map) ==
    LET hit == Cached(map, DescKey(f.m))
    IN  IF hit # {}
        THEN Send([f EXCEPT !.ok = TRUE], g, CHOOSE d \in hit : TRUE)
        ELSE [pc |-> "NewDesc", fr |-> [f EXCEPT !.ok = FALSE], ch |-> <<>>, gh |-> g]

\* Lines 134-147 and, for a result with a value, collectMetric up to its
\* access to the cache: one iteration of the result loop.  What precedes the
\* lookup is local to the goroutine and is taken with it.
NextResult(p) ==
    /\ Runs(p, "results")
    /\ fr[p].k <= fr[p].nr
    /\ \E id \in ResultIds(Len(fr[p].arg)), values \in ResultValues :
       \E d \in {DecodeId(id, Len(fr[p].arg))} :
          IF d.panic
          THEN \* result.Values is not read
               /\ pc' = [pc EXCEPT ![p] = "panic"]
               /\ fr' = [fr EXCEPT ![p].result = [Id |-> id, Values |-> <<>>]]
               /\ gh' = [gh EXCEPT ![p].honoured = FALSE]
               /\ ch' = ch
          ELSE LET asAsked == /\ id = PositionId(d.idx)
                              /\ d.idx \notin gh[p].seen
                              /\ Len(values) > 0
                   f == [fr[p] EXCEPT !.result = [Id |-> id, Values |-> values],
                                      !.idx = d.idx,
                                      !.m = fr[p].arg[d.idx + 1],
                                      !.value = SampleValue(values)]
                   g == [gh[p] EXCEPT !.honoured = @ /\ asAsked,
                                      !.seen = @ \cup {d.idx},
                                      !.valued = IF Len(values) > 0 THEN @ + 1 ELSE @]
               IN  \E o \in {IF AfterDecode(values) = "results"
                             THEN [pc |-> "results", fr |-> [f EXCEPT !.k = @ + 1],
                                   ch |-> <<>>, gh |-> g]
                             ELSE Lookup(f, g, descMap)} :
                      /\ pc' = [pc EXCEPT ![p] = o.pc]
                      /\ fr' = [fr EXCEPT ![p] = o.fr]
                      /\ gh' = [gh EXCEPT ![p] = o.gh]
                      /\ ch' = [ch EXCEPT ![p] = o.ch]
    /\ UNCHANGED <<CollectorFields, descMap, calls, closed, DescribeVars>>

\* Lines 97-107: after a miss a descriptor is made and stored, and the sample
\* is sent under it.
Store(p) ==
    /\ Runs(p, "NewDesc")
    /\ \E fqName \in {FqName(fr[p].m)} :
       \E desc \in {NewDesc(NextInstance(descMap, DescKey(fr[p].m)),
                              fqName, LabelNames(fr[p].m))} :
       \E o \in {Send(fr[p], gh[p], desc)} :
           /\ descMap' = Stored(descMap, DescKey(fr[p].m), desc)
           /\ pc' = [pc EXCEPT ![p] = o.pc]
           /\ fr' = [fr EXCEPT ![p] = o.fr]
           /\ gh' = [gh EXCEPT ![p] = o.gh]
           /\ ch' = [ch EXCEPT ![p] = o.ch]
    /\ UNCHANGED <<CollectorFields, calls, closed, DescribeVars>>

(***************************************************************************)
(* Specifications.                                                         *)
(***************************************************************************)
Step(p) ==
    \/ StartCollect(p)
    \/ ListMetricsFails(p)
    \/ ListMetricsReturns(p)
    \/ LoopIteration(p)
    \/ LoopEnds(p)
    \/ Return(p)
    \/ CloseSink(p)
    \/ Receive(p)
    \/ BatchEmpty(p)
    \/ GetMetricsResultsFails(p)
    \/ GetMetricsResultsReturns(p)
    \/ NextResult(p)
    \/ BatchReturns(p)
    \/ Store(p)

\* Collect invocations serialized by the caller: one goroutine at a time.
Next == Describe \/ ReceiveDesc \/ Step(1)

Spec == Init /\ [][Next]_vars

\* What goroutine p does once Collect is started, the answers of the Reporter
\* and the receptions of the consumer included.
Progress(p) ==
    \/ ListMetricsFails(p)
    \/ ListMetricsReturns(p)
    \/ LoopIteration(p)
    \/ LoopEnds(p)
    \/ Return(p)
    \/ Receive(p)
    \/ BatchEmpty(p)
    \/ GetMetricsResultsFails(p)
    \/ GetMetricsResultsReturns(p)
    \/ NextResult(p)
    \/ BatchReturns(p)
    \/ Store(p)

\* Serialized invocations where every Reporter call returns, the goroutine
\* running Collect is scheduled and the consumer goes on receiving (test,
\* lines 53-60).
FairSpec == Spec /\ WF_vars(Progress(1))

\* Identities per group in the stores of the interleaved specification.
MaxInterleavedPerGroup == 1

\* Two goroutines run Collect on the one Collector with nothing serializing
\* them (Collect has a value receiver; the copies share the map c.descMap).
InitInterleaved ==
    /\ Init
    /\ Len(inserted) <= Cardinality(Groups) * MaxInterleavedPerGroup

\* Lines 95 and 99 are unsynchronized accesses to one map.  When a write of
\* one goroutine meets a read or a write of another, the Go runtime may stop
\* the process ("concurrent map read and map write", "concurrent map
\* writes"); otherwise the accesses take effect in either order.
ConcurrentMapAccess ==
    /\ \E p, q \in Procs :
          /\ p # q
          /\ Runs(p, "NewDesc")
          /\ Runs(q, "NewDesc") \/ (Runs(q, "results") /\ fr[q].k <= fr[q].nr)
          /\ pc' = [pc EXCEPT ![p] = "panic"]
    /\ UNCHANGED <<CollectorFields, descMap, calls, fr, ch, closed, gh,
                   DescribeVars>>

NextInterleaved == ConcurrentMapAccess \/ Step(1) \/ Step(2)

InterleavedSpec == InitInterleaved /\ [][NextInterleaved]_vars

(***************************************************************************)
(* Claims.                                                                 *)
(***************************************************************************)
\* The listing of the running or last invocation of the Collector.
Listing == ListMetrics(inserted, namespace, metricName)

\* The groups the Collector's filter pair matches.
MatchingGroups ==
    {g \in Groups : Matches(namespace, GroupNamespace(g))
                    /\ Matches(metricName, GroupMetricName(g))}

\* The identities matching the filter pair, counted group by group.
RECURSIVE MatchingCountUpTo(_)
MatchingCountUpTo(g) ==
    IF g = 0 THEN 0
    ELSE (IF g \in MatchingGroups THEN GroupCount(inserted, g) ELSE 0)
         + MatchingCountUpTo(g - 1)

MatchingCount == MatchingCountUpTo(Cardinality(Groups))

\* No Reporter call of p's invocation has failed, and every result so far was
\* as the contract asks and carried a value.
Ideal(p) ==
    /\ pc[p] \notin {"idle", "ListMetrics"}
    /\ ~gh[p].listErr
    /\ gh[p].getErrs = 0
    /\ gh[p].honoured

\* C1 as stated: for any listing, when no Reporter call fails, the Reporter
\* honours its contract and every result carries a value, an invocation of
\* Collect emits exactly C samples and no error sample, C the number of listed
\* identities (for wildcard filters the sum of the matching groups' counts).
C1_LosslessForAnyListing ==
    \A p \in Procs :
        (Ideal(p) /\ pc[p] \in {"done", "panic"}) =>
            /\ gh[p].data = Len(Listing)
            /\ gh[p].data = MatchingCount
            /\ gh[p].invalid = 0

\* C2: when ListMetrics fails, Collect sends exactly one invalid metric on
\* c.errDesc carrying the listing failure, no data sample, makes no
\* GetMetricsResults call, and returns.
C2_ListErrorOneErrorSample ==
    \A p \in Procs :
        gh[p].listErr =>
            /\ pc[p] \in {"return", "done"}
            /\ gh[p].gets = 0 /\ gh[p].sent = 0 /\ gh[p].data = 0
            /\ gh[p].invalid + Len(ch[p]) = 1
            /\ ch[p] # <<>> =>
                  ch[p][1] = [kind |-> "invalid", desc |-> errDesc, err |-> "ListError"]
            /\ pc[p] = "done" => gh[p].invalid = 1 /\ ch[p] = <<>>

\* C2's case: Collect has returned after a failed listing.
C2_Witness ==
    \E p \in Procs : gh[p].listErr /\ pc[p] = "done" /\ gh[p].invalid = 1

\* ceil(n / batchSize)
Batches(n) == (n + batchSize - 1) \div batchSize

\* The samples of each kind p's Collect has sent: received, or still offered.
DataSent(p) ==
    gh[p].data + (IF ch[p] # <<>> /\ ch[p][1].kind = "data" THEN 1 ELSE 0)

InvalidSent(p) ==
    gh[p].invalid + (IF ch[p] # <<>> /\ ch[p][1].kind = "invalid" THEN 1 ELSE 0)

\* C3: a failed GetMetricsResults costs one error sample and the samples of
\* its batch alone: while Collect runs the error samples sent number the failed
\* fetches, and when it returns (the answers to the fetched batches being as
\* asked) every batch of the listing has been fetched, the data samples are
\* those of the batches whose fetch succeeded and the error samples number
\* the batches whose fetch failed.
C3_QueryErrorCostsItsBatchAlone ==
    \A p \in Procs :
        ~gh[p].listErr =>
            /\ InvalidSent(p) = gh[p].getErrs
            /\ (pc[p] = "done" /\ gh[p].honoured) =>
                  /\ gh[p].gets = Batches(Len(Listing))
                  /\ gh[p].okSize + gh[p].errSize = Len(Listing)
                  /\ gh[p].data = gh[p].okSize
                  /\ gh[p].invalid = gh[p].getErrs

\* C3's case: of two batches the full first one failed, and the short last
\* one was fetched and emitted all the same.
C3_Witness ==
    \E p \in Procs :
        /\ pc[p] = "done" /\ gh[p].honoured
        /\ Len(Listing) % batchSize # 0
        /\ gh[p].gets = 2 /\ gh[p].getErrs = 1 /\ gh[p].errSize = batchSize
        /\ gh[p].invalid = 1
        /\ gh[p].data = Len(Listing) - batchSize /\ gh[p].data > 0

\* C4: in a fetched batch a result without values yields no sample and no
\* error sample, a result with values yields exactly one sample, and its value
\* is the first of the result's values: every data sample offered carries
\* result.Values[0], and between results the data samples sent number the
\* decoded results that carried a value, the error samples the failed calls.
C4_FirstValueOrNothing ==
    \A p \in Procs :
        /\ (ch[p] # <<>> /\ ch[p][1].kind = "data") =>
              /\ Len(fr[p].result.Values) > 0
              /\ ch[p][1].value = fr[p].result.Values[1]
        /\ pc[p] \in {"results", "collectBatch", "loop", "return", "done"} =>
              /\ gh[p].sent = gh[p].valued
              /\ DataSent(p) = gh[p].sent
              /\ InvalidSent(p) = gh[p].getErrs + (IF gh[p].listErr THEN 1 ELSE 0)

\* C4's case: of the first two results of a batch one had no value, and the
\* other, with two values, is being sent.
C4_Witness ==
    \E p \in Procs :
        /\ ch[p] # <<>> /\ ch[p][1].kind = "data"
        /\ Len(fr[p].result.Values) = 2
        /\ ch[p][1].value # fr[p].result.Values[2]
        /\ fr[p].k = 3 /\ gh[p].gets = 1 /\ gh[p].valued = 1 /\ gh[p].sent = 1

\* C5: a result sequence whose length differs from the batch's is fatal
\* before any result is decoded: results are decoded only when the lengths
\* agree, and the panic leaves no result of the batch decoded, no sample and
\* no error sample of the batch sent, and no step of the program to follow
\* (no later fetch, no return).
C5_LengthMismatchIsFatal ==
    \A p \in Procs :
        /\ pc[p] \in {"results", "NewDesc"} => fr[p].nr = Len(fr[p].arg)
        /\ (pc[p] = "panic" /\ fr[p].nr # Len(fr[p].arg)) =>
              /\ fr[p].k = 1 /\ gh[p].seen = {}
              /\ fr[p].result = ZeroFrame.result
              /\ ch[p] = <<>>
              /\ gh[p].sent = gh[p].valued /\ gh[p].data = gh[p].sent
              /\ gh[p].invalid = gh[p].getErrs
              /\ ~ENABLED Next

\* C5's case: the second batch is answered with a result too few or too many,
\* after the first was emitted.
C5_Witness ==
    \E p \in Procs :
        /\ pc[p] = "panic" /\ fr[p].nr # Len(fr[p].arg)
        /\ gh[p].gets = 2 /\ gh[p].data > 0

\* Whether id is "n<index>", index a position of a batch of nm members.
WellFormedId(id, nm) == id \in {PositionId(index) : index \in 0..(nm - 1)}

\* C6 as stated: a result whose id is not "n<index>" with index a position
\* of the batch sent stops Collect at that result, i.e. whenever the result
\* loop is past a result without a panic, that result's id is well formed.
C6_MalformedIdIsFatal ==
    \A p \in Procs :
        (pc[p] \in {"results", "NewDesc"} /\ fr[p].result.Id # <<>>) =>
            WellFormedId(fr[p].result.Id, Len(fr[p].arg))

\* C7: with Collect invocations serialized, every data sample is sent under
\* the one descriptor the cache holds for its identity's dimension names, the
\* cache holds one entry per key, every entry is the first instance made for
\* its key, and no entry ever leaves the cache or changes.
C7_OneDescriptorPerKey ==
    /\ [](/\ \A e1, e2 \in descMap : e1.key = e2.key => e1 = e2
          /\ \A e \in descMap : e.desc.id = 1
          /\ \A p \in Procs :
                (ch[p] # <<>> /\ ch[p][1].kind = "data") =>
                    [key |-> DescKey(fr[p].m), desc |-> ch[p][1].desc] \in descMap)
    /\ [][descMap \subseteq descMap']_vars

\* C7's case: the first sample of a second invocation is served from the
\* cache, under the descriptor an earlier invocation made.
C7_Witness ==
    \E p \in Procs :
        /\ calls = 2 /\ gh[p].sent = 1
        /\ ch[p] # <<>> /\ ch[p][1].kind = "data"
        /\ fr[p].ok
        /\ ch[p][1].desc.id = 1

\* C8 as stated: every data sample has as many label values as its
\* descriptor has label names, and its n-th label value is the value of the
\* identity's dimension named by the descriptor's n-th label name.
C8_LabelValuesMatchLabelNames ==
    \A p \in Procs :
        (ch[p] # <<>> /\ ch[p][1].kind = "data") =>
            /\ Len(ch[p][1].lvs) = Len(ch[p][1].desc.variableLabels)
            /\ \A n \in 1..Len(ch[p][1].lvs) :
                  \E j \in 1..Len(fr[p].m.Dimensions) :
                      /\ fr[p].m.Dimensions[j].Name = ch[p][1].desc.variableLabels[n]
                      /\ fr[p].m.Dimensions[j].Value = ch[p][1].lvs[n]

\* C9: what Describe offers is one descriptor named "dummy" without labels
\* and no descriptor of the cache, and a step of Describe changes nothing of
\* the collector: not the cache, not a Collect invocation, and no Reporter
\* call is counted.
C9_DescribeSendsOnlyThePlaceholder ==
    /\ [](descCh # <<>> =>
            /\ Len(descCh) = 1
            /\ descCh[1].fqName = Dummy /\ descCh[1].variableLabels = <<>>
            /\ descCh[1] \notin {e.desc : e \in descMap})
    /\ [][descCh' # descCh =>
            UNCHANGED <<CollectorFields, descMap, calls, pc, fr, ch, closed, gh>>]_vars

\* C9's case: Describe runs after two Collect invocations have filled the
\* cache.
C9_Witness == descCh # <<>> /\ descMap # {} /\ calls = 2

\* C10: when every Reporter call returns and the consumer receives what is
\* offered, a started Collect ends (it returns, or one of its panics stops
\* it) after at most one ListMetrics call, one GetMetricsResults call per
\* batch of the listing, one data sample per listed identity and one error
\* sample per failed call; the sink is closed only by the caller, in a step
\* of its own after Collect has returned.
C10_CollectEndsAndLeavesTheSinkOpen ==
    /\ \A p \in Procs : (pc[p] = "ListMetrics") ~> (pc[p] \in {"done", "panic"})
    /\ [](\A p \in Procs :
            /\ gh[p].lists <= 1
            /\ gh[p].gets <= Batches(Len(Listing))
            /\ gh[p].sent <= Len(Listing)
            /\ InvalidSent(p) <= gh[p].gets + gh[p].lists
            /\ closed[p] => pc[p] = "done")
    /\ [][\A p \in Procs :
            closed'[p] # closed[p] => (pc[p] = pc'[p] \/ pc'[p] = "ListMetrics")]_vars

\* C10's case: Collect has returned from a listing of several batches, one of
\* them failed, and its sink is still open.
C10_Witness ==
    \E p \in Procs :
        /\ pc[p] = "done" /\ ~closed[p]
        /\ gh[p].gets = Batches(Len(Listing)) /\ gh[p].gets > 1
        /\ gh[p].getErrs > 0 /\ gh[p].data > 0

\* C11: the sink holds at most one sample that is offered and not received,
\* Collect has not returned while one is offered, and from a state with a
\* sample offered the only step there is is the consumer's reception: it
\* leaves Collect where it stands, and until it happens Collect makes no
\* Reporter call, offers nothing else, stores no descriptor and does not
\* return.
C11_BlockedUntilReceived ==
    /\ [](\A p \in Procs :
            /\ Len(ch[p]) <= 1
            /\ ch[p] # <<>> => pc[p] \in {"loop", "results", "return"})
    /\ [][\A p \in Procs :
            ch[p] # <<>> =>
                /\ ch'[p] = <<>>
                /\ gh'[p].data + gh'[p].invalid = gh[p].data + gh[p].invalid + 1
                /\ pc' = pc /\ descMap' = descMap /\ closed' = closed
                /\ gh'[p].lists = gh[p].lists /\ gh'[p].gets = gh[p].gets
                /\ gh'[p].sent = gh[p].sent]_vars

\* C11's case: an error sample is offered after data samples of an earlier
\* batch were received.
C11_Witness ==
    \E p \in Procs :
        /\ ch[p] # <<>> /\ ch[p][1].kind = "invalid"
        /\ gh[p].data > 0 /\ gh[p].gets > 1


\* The size of the k-th batch (from 1) of a listing of c identities.
BatchSizeOf(k, c) == IF k * batchSize <= c THEN batchSize ELSE c - (k - 1) * batchSize

\* C12: a listing of C identities is fetched in ceil(C / batchSize) calls of
\* GetMetricsResults: the batch of the k-th call has batchSize members, the
\* last one what is left (at least one); collectBatch is entered with an
\* empty batch only after the loop, when every call has been made (C = 0 or a
\* multiple of batchSize), and makes no call then; an invocation that
\* returns has made every call, and none and no send for an empty listing.
C12_CallsAndBatchSizes ==
    \A p \in Procs :
        (pc[p] \notin {"idle", "ListMetrics"} /\ ~gh[p].listErr) =>
            /\ gh[p].gets <= Batches(Len(Listing))
            /\ (pc[p] = "collectBatch" /\ Len(fr[p].arg) > 0) =>
                  /\ gh[p].gets < Batches(Len(Listing))
                  /\ Len(fr[p].arg) = BatchSizeOf(gh[p].gets + 1, Len(Listing))
                  /\ Len(fr[p].arg) \in 1..batchSize
                  /\ gh[p].gets + 1 < Batches(Len(Listing)) => Len(fr[p].arg) = batchSize
            /\ (pc[p] = "collectBatch" /\ Len(fr[p].arg) = 0) =>
                  /\ fr[p].retTo = "return"
                  /\ gh[p].gets = Batches(Len(Listing))
                  /\ Len(Listing) % batchSize = 0
            /\ pc[p] \in {"results", "NewDesc"} =>
                  /\ gh[p].gets >= 1
                  /\ Len(fr[p].arg) = BatchSizeOf(gh[p].gets, Len(Listing))
                  /\ Len(fr[p].arg) \in 1..batchSize
            /\ gh[p].okSize + gh[p].errSize =
                  (IF gh[p].gets < Batches(Len(Listing))
                   THEN gh[p].gets * batchSize ELSE Len(Listing))
               \/ pc[p] = "panic"
            /\ pc[p] \in {"return", "done"} =>
                  /\ gh[p].gets = Batches(Len(Listing))
                  /\ Len(Listing) = 0 =>
                        gh[p].gets = 0 /\ gh[p].sent = 0 /\ InvalidSent(p) = 0

\* C12's case: Collect has returned from a listing of one full batch and a
\* short one, with two calls made.
C12_Witness ==
    \E p \in Procs :
        /\ pc[p] = "done" /\ ~gh[p].listErr
        /\ Len(Listing) = batchSize + 1
        /\ gh[p].gets = 2 /\ gh[p].okSize + gh[p].errSize = Len(Listing)


\* The k-th (from 1) consecutive slice of batchSize identities of a listing.
SliceOf(listing, k) ==
    SubSeq(listing, (k - 1) * batchSize + 1,
           IF k * batchSize <= Len(listing) THEN k * batchSize ELSE Len(listing))

\* C13: the batch of the k-th GetMetricsResults call is the k-th consecutive
\* slice of the listing, in listing order, when the call is made and for as
\* long as its results are read; the short batch after the loop holds no
\* identity of an earlier batch.
C13_BatchesAreConsecutiveSlices ==
    \A p \in Procs :
        /\ (pc[p] = "collectBatch" /\ Len(fr[p].arg) > 0) =>
              fr[p].arg = SliceOf(Listing, gh[p].gets + 1)
        /\ pc[p] \in {"results", "NewDesc"} =>
              fr[p].arg = SliceOf(Listing, gh[p].gets)

\* C13's case: the results of the short last batch of a listing of several
\* batches are read, the buffer still holding an identity of the batch before.
C13_Witness ==
    \E p \in Procs :
        /\ pc[p] = "results" /\ gh[p].gets > 1
        /\ Len(fr[p].arg) < batchSize
        /\ Len(fr[p].batch) = batchSize
        /\ fr[p].batch[batchSize] = Listing[(gh[p].gets - 1) * batchSize]
        /\ fr[p].arg = <<Listing[Len(Listing)]>>


\* C14: a sample offered for a result with id "n<k>" carries the dimension
\* values of the k-th identity (from 0) of the batch of the running call,
\* which is the identity at that position of the call's slice of the listing,
\* and the first value of the result, in whatever order the results come.
C14_SampleOfTheNamedPosition ==
    \A p \in Procs :
        (ch[p] # <<>> /\ ch[p][1].kind = "data") =>
            \A k \in 0..(Len(fr[p].arg) - 1) :
                fr[p].result.Id = PositionId(k) =>
                    /\ ch[p][1].lvs = LabelValues(fr[p].arg[k + 1])
                    /\ ch[p][1].lvs =
                          LabelValues(Listing[(gh[p].gets - 1) * batchSize + k + 1])
                    /\ Len(fr[p].result.Values) > 0
                    /\ ch[p][1].value = fr[p].result.Values[1]

\* C14's case: the first result of a second batch names the batch's second
\* position and carries two values, and its sample is offered.
C14_Witness ==
    \E p \in Procs :
        /\ ch[p] # <<>> /\ ch[p][1].kind = "data"
        /\ gh[p].gets = 2 /\ fr[p].k = 2
        /\ fr[p].result.Id = PositionId(1)
        /\ Len(fr[p].result.Values) = 2
        /\ ch[p][1].lvs = LabelValues(Listing[batchSize + 2])


\* C15: GetMetricsResults is called only after ListMetrics has returned
\* without error; when collectBatch is entered for the next batch, which is
\* the next slice of the listing, every data and error sample of the batches
\* before has been received; within a batch a result is read only when the
\* sample of the result before it has been received, so samples are offered
\* one at a time in the order the results are read.
C15_OneCallAtATimeInListingOrder ==
    \A p \in Procs :
        /\ gh[p].gets > 0 => gh[p].lists = 1 /\ ~gh[p].listErr
        /\ pc[p] = "collectBatch" =>
              /\ gh[p].lists = 1 /\ ~gh[p].listErr
              /\ ch[p] = <<>>
              /\ gh[p].data = gh[p].sent /\ gh[p].invalid = gh[p].getErrs
              /\ Len(fr[p].arg) > 0 => fr[p].arg = SliceOf(Listing, gh[p].gets + 1)
        /\ pc[p] = "NewDesc" =>
              /\ ch[p] = <<>>
              /\ gh[p].data = gh[p].sent /\ gh[p].invalid = gh[p].getErrs
        /\ (pc[p] = "results" /\ ch[p] # <<>>) =>
              /\ Len(ch[p]) = 1 /\ ch[p][1].kind = "data"
              /\ gh[p].data + 1 = gh[p].sent /\ gh[p].invalid = gh[p].getErrs
              /\ fr[p].k >= 2 /\ fr[p].k <= fr[p].nr + 1
              /\ ch[p][1].value = SampleValue(fr[p].result.Values)
        /\ (pc[p] = "results" /\ ch[p] = <<>>) =>
              gh[p].data = gh[p].sent /\ gh[p].invalid = gh[p].getErrs

\* C15's case: collectBatch is entered for the third batch after the two
\* samples of the first and the error sample of the second were received.
C15_Witness ==
    \E p \in Procs :
        /\ pc[p] = "collectBatch" /\ Len(fr[p].arg) > 0
        /\ gh[p].gets = 2 /\ gh[p].getErrs = 1
        /\ gh[p].data = batchSize /\ gh[p].invalid = 1


\* C16: a descriptor enters the cache only when a metric is observed whose
\* dimension names no cached descriptor has for label names, and it is made
\* from that metric: named normalized(namespace) + "_" + normalized(name),
\* labelled by its dimension names; a sample of a metric whose dimension names
\* a cached descriptor has is offered under that descriptor, whatever the
\* metric's namespace and name, and no descriptor is made for it.
C16_FirstObservedNamesTheDescriptor ==
    /\ [][descMap' # descMap =>
            \E p \in Procs :
                /\ pc[p] = "NewDesc"
                /\ \A e \in descMap : e.desc.variableLabels # LabelNames(fr[p].m)
                /\ descMap' = descMap \cup
                      {[key  |-> Join(LabelNames(fr[p].m)),
                        desc |-> NewDesc(1, FqName(fr[p].m), LabelNames(fr[p].m))]}]_vars
    /\ [][\A p \in Procs :
            gh'[p].sent # gh[p].sent =>
                \A e \in descMap :
                    e.desc.variableLabels = LabelNames(fr'[p].m) =>
                        descMap' = descMap /\ ch'[p][1].desc = e.desc]_vars

\* C16's case: a sample of AWS/EC2 NetworkOut is offered under the descriptor
\* "aws_ec2_network_in" that a NetworkIn metric with the same dimension names
\* made.
C16_Witness ==
    \E p \in Procs :
        /\ ch[p] # <<>> /\ ch[p][1].kind = "data"
        /\ fr[p].ok
        /\ fr[p].m.MetricName = NetworkOut
        /\ ch[p][1].desc.variableLabels = LabelNames(fr[p].m)
        /\ ch[p][1].desc.fqName =
              <<"a","w","s","_","e","c","2","_",
                "n","e","t","w","o","r","k","_","i","n">>


\* C17 as stated: a metric is served by a cached descriptor only if the
\* descriptor's label names are the metric's dimension names, in their order:
\* whenever the lookup of collectMetric has hit, the descriptor it returned
\* is labelled by the dimension-name sequence of the metric looked up.
C17_OwnDescriptorPerSequence ==
    \A p \in Procs :
        fr[p].ok => fr[p].desc.variableLabels = LabelNames(fr[p].m)


\* C18: with two invocations interleaved, a goroutine that missed the cache
\* stores its descriptor also when another has stored one for the key since:
\* the entry is replaced by a new instance with the same label names, the
\* goroutine's sample is offered under the new instance while the other's
\* samples carry the old one; a second instance is in the cache only when
\* both goroutines have started Collect.
C18_InterleavedMissesStoreTwice ==
    /\ [](\A e \in descMap :
            /\ e.desc.id \in 1..2
            /\ e.desc.id = 2 => \A p \in Procs : pc[p] # "idle")
    /\ [][\A p \in Procs :
            (pc[p] = "NewDesc" /\ pc'[p] = "results"
                /\ Cached(descMap, DescKey(fr[p].m)) # {}) =>
                \E old \in Cached(descMap, DescKey(fr[p].m)) :
                    /\ ~fr[p].ok
                    /\ ch'[p][1].desc # old
                    /\ ch'[p][1].desc.variableLabels = LabelNames(fr[p].m)
                    /\ Cached(descMap', DescKey(fr[p].m)) = {ch'[p][1].desc}
                    /\ \E q \in Procs \ {p} : pc[q] # "idle"]_vars

\* C18's case: the two goroutines each offer a sample of an identity with
\* the same dimension names, under different descriptor instances labelled
\* by those names.
C18_Witness ==
    /\ ch[1] # <<>> /\ ch[1][1].kind = "data"
    /\ ch[2] # <<>> /\ ch[2][1].kind = "data"
    /\ LabelNames(fr[1].m) = LabelNames(fr[2].m)
    /\ ch[1][1].desc.variableLabels = LabelNames(fr[1].m)
    /\ ch[2][1].desc.variableLabels = LabelNames(fr[2].m)
    /\ ch[1][1].desc # ch[2][1].desc


\* C19 as stated: while the results of an invocation's first batch are read,
\* every result decoded names a position no earlier result of the batch
\* named, so no more samples are offered than positions were named, and when
\* the result loop ends every member of the batch has been named once.
C19_ChecksRuleOutRepeatedIds ==
    \A p \in Procs :
        (pc[p] \in {"results", "NewDesc"} /\ gh[p].gets = 1) =>
            /\ gh[p].sent <= Cardinality(gh[p].seen)
            /\ (pc[p] = "results" /\ fr[p].k > fr[p].nr) =>
                  gh[p].seen = 0..(Len(fr[p].arg) - 1)


\* C20 as stated: no two samples of an invocation for different listed
\* identities agree in descriptor and label values.  With no Reporter call
\* failed and every result as asked and valued, each position named so far in
\* the running batch had its sample offered under the cached descriptor of
\* its key; the sample now offered differs from each of them in the
\* descriptor or in the label values.
C20_SamplesPairwiseDistinguishable ==
    \A p \in Procs :
        (ch[p] # <<>> /\ ch[p][1].kind = "data" /\ Ideal(p)) =>
            \A j \in gh[p].seen \ {fr[p].idx} :
                ~ /\ ch[p][1].desc \in Cached(descMap, DescKey(fr[p].arg[j + 1]))
                  /\ ch[p][1].lvs = LabelValues(fr[p].arg[j + 1])


====
